---- MODULE Spec2Model ----
(***************************************************************************)
(* A model of whitespace.py: the lexer (sanitize, tokenize), the assembler *)
(* (parse), the virtual machine (VirtualMachine, the Instruction classes)  *)
(* and the entry point whitespace().  Spec runs the machine on token       *)
(* sequences handed to parse; SpecText runs whitespace() on program texts, *)
(* parse drawing its tokens from the generator tokenize one at a time.     *)
(*                                                                         *)
(* Text (program labels, the input stream, the output) is a sequence of    *)
(* Unicode code points, which is what a Python str is; ord and chr map a   *)
(* one-character str to and from its code point.  A Python list is a       *)
(* sequence whose last element is the top of the stack; Python index i is  *)
(* TLA+ index i + 1.  A Python dict is a function with a finite domain.    *)
(* An exception is the name of its class; "none" is normal completion.     *)
(***************************************************************************)
EXTENDS Integers, Sequences, FiniteSets, TLC

(***************************************************************************)
(* Characters                                                              *)
(***************************************************************************)
SP == 32
TAB == 9
NL == 10
MINUS == 45
PLUS == 43
ZERO == 48
MaxCodePoint == 1114111

(***************************************************************************)
(* Instructions: <<class name>> for a Nullary, <<class name, argument>>    *)
(* for a Unary.                                                            *)
(***************************************************************************)
Duplicate == <<"Duplicate">>
Swap == <<"Swap">>
Discard == <<"Discard">>
Add == <<"Add">>
Subtract == <<"Subtract">>
Multiply == <<"Multiply">>
Division == <<"Division">>
Modulo == <<"Modulo">>
Store == <<"Store">>
Retrieve == <<"Retrieve">>
ReadChar == <<"ReadChar">>
ReadNumber == <<"ReadNumber">>
WriteChar == <<"WriteChar">>
WriteNumber == <<"WriteNumber">>
Return == <<"Return">>
Exit == <<"Exit">>
Push(n) == <<"Push", n>>
Copy(n) == <<"Copy", n>>
Slide(n) == <<"Slide", n>>
Label(l) == <<"Label", l>>
Call(l) == <<"Call", l>>
Jump(l) == <<"Jump", l>>
JumpIfZero(l) == <<"JumpIfZero", l>>
JumpIfNegative(l) == <<"JumpIfNegative", l>>

ClassOf(ins) == ins[1]
Argument(ins) == ins[2]
BinArith == {"Add", "Subtract", "Multiply", "Division", "Modulo"}

(***************************************************************************)
(* Python builtins used by the instructions                                *)
(***************************************************************************)
Min(a, b) == IF a < b THEN a ELSE b

\* b // a for a # 0: the floor of the quotient, for every sign of a and b.
FloorDiv(b, a) == IF a > 0 THEN b \div a ELSE (0 - b) \div (0 - a)

\* b % a for a # 0: the remainder of the floor division (it has the sign of a).
FloorMod(b, a) == b - a * FloorDiv(b, a)

RECURSIVE DecimalDigits(_)
DecimalDigits(n) ==
    IF n < 10 THEN <<ZERO + n>>
    ELSE DecimalDigits(n \div 10) \o <<ZERO + (n % 10)>>

\* str(v) of an int: a minus sign for a negative value, then its decimal digits.
Str(v) == IF v < 0 THEN <<MINUS>> \o DecimalDigits(0 - v) ELSE DecimalDigits(v)

IsDigit(c) == c \in ZERO..(ZERO + 9)

RECURSIVE DigitsValue(_)
DigitsValue(s) ==
    IF s = <<>> THEN 0
    ELSE 10 * DigitsValue(SubSeq(s, 1, Len(s) - 1)) + (s[Len(s)] - ZERO)

\* int(string) for a string of the characters InputAlphabet offers (no blanks,
\* no underscores): an optional sign and at least one digit, or ValueError.
IntOf(s) ==
    LET signed == Len(s) > 0 /\ s[1] \in {PLUS, MINUS}
        body == IF signed THEN Tail(s) ELSE s
        ok == Len(body) > 0 /\ \A i \in 1..Len(body) : IsDigit(body[i])
    IN  [ok |-> ok,
         value |-> IF ~ok THEN 0
                   ELSE IF signed /\ s[1] = MINUS THEN 0 - DigitsValue(body)
                   ELSE DigitsValue(body)]

\* chr(v) raises ValueError outside range(0x110000).
ChrOk(v) == v >= 0 /\ v <= MaxCodePoint

\* heap[address] = value on a dict
DictSet(d, k, v) == [x \in (DOMAIN d) \cup {k} |-> IF x = k THEN v ELSE d[x]]

\* The result of a (piece of a) call: the machine it leaves and what it raised.
Ok(vm) == [vm |-> vm, exc |-> "none"]
Raise(vm, e) == [vm |-> vm, exc |-> e]

\* list[-1] and list.pop() on a non-empty list
Top(s) == s[Len(s)]
Pop(s) == SubSeq(s, 1, Len(s) - 1)

\* seq[i] for a Python index i, negative indices counting from the end
IndexOk(s, i) == i < Len(s) /\ i >= 0 - Len(s)
At(s, i) == IF i >= 0 THEN s[i + 1] ELSE s[Len(s) + i + 1]

\* list[:-n] for n >= 0: -0 is 0, so list[:-0] is list[:0], the empty list.
SliceToMinus(s, n) ==
    IF n = 0 THEN <<>>
    ELSE IF n >= Len(s) THEN <<>>
    ELSE SubSeq(s, 1, Len(s) - n)

(***************************************************************************)
(* The state: the arguments of whitespace(), the fields of the             *)
(* VirtualMachine, and where the host is in its calls.                     *)
(***************************************************************************)
VARIABLES
    code,               \* the program text handed to whitespace()
    index,              \* the index of tokenize into the sanitized text
    tokens,             \* the tokens handed to parse (those the generator
                        \* has yielded so far, when they come from a text)
    input,              \* vm.input
    instructions,       \* vm.instructions
    label_table,        \* vm.label_table
    instruction_index,  \* vm.instruction_index
    stack,              \* vm.stack
    heap,               \* vm.heap
    call_stack,         \* vm.call_stack
    input_index,        \* vm.input_index
    output,             \* vm.output
    running,            \* vm.running
    consumed,           \* how many tokens the for loop of parse has taken
    pc,                 \* "parse" (in the for loop of parse), "failed" (parse
                        \* raised), "idle" (a machine exists, no call in
                        \* progress), "loop" (inside run)
    steps,              \* the local variable steps of run (0 outside run)
    called,             \* the last call made on the machine: "none", "run", "step"
    exception,          \* what the last call raised, "none" if it returned
    calls               \* how many calls of run and step the host has made

vars == <<code, index, tokens, input, instructions, label_table, instruction_index, stack,
          heap, call_stack, input_index, output, running, consumed, pc, steps,
          called, exception, calls>>

\* The mutable fields of the machine, as the record the instructions work on.
VM == [instruction_index |-> instruction_index, stack |-> stack, heap |-> heap,
       call_stack |-> call_stack, input_index |-> input_index,
       output |-> output, running |-> running]

(***************************************************************************)
(* The instructions                                                        *)
(***************************************************************************)
DuplicatePerform(vm) ==
    IF ~IndexOk(vm.stack, -1) THEN Raise(vm, "IndexError")
    ELSE Ok([vm EXCEPT !.stack = Append(@, At(vm.stack, -1))])

SwapPerform(vm) ==
    IF vm.stack = <<>> THEN Raise(vm, "IndexError")
    ELSE LET a == Top(vm.stack)
             vm1 == [vm EXCEPT !.stack = Pop(@)]
         IN  IF vm1.stack = <<>> THEN Raise(vm1, "IndexError")
             ELSE LET b == Top(vm1.stack)
                  IN  Ok([vm1 EXCEPT !.stack = Pop(@) \o <<a, b>>])

DiscardPerform(vm) ==
    IF vm.stack = <<>> THEN Raise(vm, "IndexError")
    ELSE Ok([vm EXCEPT !.stack = Pop(@)])

AddCombine(a, b) == [exc |-> "none", value |-> b + a]
SubtractCombine(a, b) == [exc |-> "none", value |-> b - a]
MultiplyCombine(a, b) == [exc |-> "none", value |-> b * a]

\* Division._combine with a quotient truncated toward zero
DivisionCombineTruncating(a, b) ==
    IF a = 0 THEN [exc |-> "RuntimeError", value |-> 0]
    ELSE LET q == (IF b < 0 THEN 0 - b ELSE b) \div (IF a < 0 THEN 0 - a ELSE a)
         IN  [exc |-> "none", value |-> IF (b < 0) = (a < 0) THEN q ELSE 0 - q]

DivisionCombine(a, b) ==
    IF a = 0 THEN [exc |-> "RuntimeError", value |-> 0]
    ELSE [exc |-> "none", value |-> FloorDiv(b, a)]

ModuloCombine(a, b) ==
    IF a = 0 THEN [exc |-> "RuntimeError", value |-> 0]
    ELSE [exc |-> "none", value |-> FloorMod(b, a)]

Combine(class, a, b) ==
    CASE class = "Add" -> AddCombine(a, b)
      [] class = "Subtract" -> SubtractCombine(a, b)
      [] class = "Multiply" -> MultiplyCombine(a, b)
      [] class = "Division" -> DivisionCombine(a, b)
      [] class = "Modulo" -> ModuloCombine(a, b)

BinArithPerform(vm, class) ==
    IF vm.stack = <<>> THEN Raise(vm, "IndexError")
    ELSE LET a == Top(vm.stack)
             vm1 == [vm EXCEPT !.stack = Pop(@)]
         IN  IF vm1.stack = <<>> THEN Raise(vm1, "IndexError")
             ELSE LET b == Top(vm1.stack)
                      vm2 == [vm1 EXCEPT !.stack = Pop(@)]
                      c == Combine(class, a, b)
                  IN  IF c.exc # "none" THEN Raise(vm2, c.exc)
                      ELSE Ok([vm2 EXCEPT !.stack = Append(@, c.value)])

\* Store writing the address at the value: heap[a] = b
StorePerformSwapped(vm) ==
    IF vm.stack = <<>> THEN Raise(vm, "IndexError")
    ELSE LET a == Top(vm.stack)
             vm1 == [vm EXCEPT !.stack = Pop(@)]
         IN  IF vm1.stack = <<>> THEN Raise(vm1, "IndexError")
             ELSE LET b == Top(vm1.stack)
                  IN  Ok([vm1 EXCEPT !.stack = Pop(@),
                                     !.heap = DictSet(@, a, b)])

StorePerform(vm) ==
    IF vm.stack = <<>> THEN Raise(vm, "IndexError")
    ELSE LET a == Top(vm.stack)
             vm1 == [vm EXCEPT !.stack = Pop(@)]
         IN  IF vm1.stack = <<>> THEN Raise(vm1, "IndexError")
             ELSE LET b == Top(vm1.stack)
                  IN  Ok([vm1 EXCEPT !.stack = Pop(@),
                                     !.heap = DictSet(@, b, a)])

RetrievePerform(vm) ==
    IF vm.stack = <<>> THEN Raise(vm, "IndexError")
    ELSE LET a == Top(vm.stack)
             vm1 == [vm EXCEPT !.stack = Pop(@)]
         IN  IF a \notin DOMAIN vm1.heap THEN Raise(vm1, "KeyError")
             ELSE Ok([vm1 EXCEPT !.stack = Append(@, vm1.heap[a])])

ReadCharPerform(vm) ==
    IF ~IndexOk(input, vm.input_index) THEN Raise(vm, "IndexError")
    ELSE LET char == At(input, vm.input_index)
             vm1 == [vm EXCEPT !.input_index = @ + 1]
         IN  IF vm1.stack = <<>> THEN Raise(vm1, "IndexError")
             ELSE LET address == Top(vm1.stack)
                  IN  Ok([vm1 EXCEPT !.stack = Pop(@),
                                     !.heap = DictSet(@, address, char)])

\* The while loop of ReadNumber: the index of the first newline at or after i,
\* or len(input) when there is none (where input[input_index] raises).
RECURSIVE ScanLine(_)
ScanLine(i) ==
    IF ~IndexOk(input, i) THEN i
    ELSE IF At(input, i) = NL THEN i
    ELSE ScanLine(i + 1)

\* ReadNumber leaving the cursor on the newline instead of after it
ReadNumberPerformKeepingNewline(vm) ==
    LET end == ScanLine(vm.input_index)
        string == SubSeq(input, vm.input_index + 1, end)
    IN  IF ~IndexOk(input, end)
        THEN Raise([vm EXCEPT !.input_index = end], "IndexError")
        ELSE LET vm1 == [vm EXCEPT !.input_index = end]
             IN  IF vm1.stack = <<>> THEN Raise(vm1, "IndexError")
                 ELSE LET address == Top(vm1.stack)
                          vm2 == [vm1 EXCEPT !.stack = Pop(@)]
                          n == IntOf(string)
                      IN  IF ~n.ok THEN Raise(vm2, "ValueError")
                          ELSE Ok([vm2 EXCEPT
                                     !.heap = DictSet(@, address, n.value)])

ReadNumberPerform(vm) ==
    LET end == ScanLine(vm.input_index)
        string == SubSeq(input, vm.input_index + 1, end)
    IN  IF ~IndexOk(input, end)
        THEN Raise([vm EXCEPT !.input_index = end], "IndexError")
        ELSE LET vm1 == [vm EXCEPT !.input_index = end + 1]
             IN  IF vm1.stack = <<>> THEN Raise(vm1, "IndexError")
                 ELSE LET address == Top(vm1.stack)
                          vm2 == [vm1 EXCEPT !.stack = Pop(@)]
                          n == IntOf(string)
                      IN  IF ~n.ok THEN Raise(vm2, "ValueError")
                          ELSE Ok([vm2 EXCEPT
                                     !.heap = DictSet(@, address, n.value)])

WriteCharPerform(vm) ==
    IF vm.stack = <<>> THEN Raise(vm, "IndexError")
    ELSE LET v == Top(vm.stack)
             vm1 == [vm EXCEPT !.stack = Pop(@)]
         IN  IF ~ChrOk(v) THEN Raise(vm1, "ValueError")
             ELSE Ok([vm1 EXCEPT !.output = Append(@, v)])

\* WriteNumber assigning the rendering instead of appending it
WriteNumberPerformReplacing(vm) ==
    IF vm.stack = <<>> THEN Raise(vm, "IndexError")
    ELSE Ok([vm EXCEPT !.stack = Pop(@), !.output = Str(Top(vm.stack))])

WriteNumberPerform(vm) ==
    IF vm.stack = <<>> THEN Raise(vm, "IndexError")
    ELSE Ok([vm EXCEPT !.stack = Pop(@), !.output = @ \o Str(Top(vm.stack))])

ReturnPerform(vm) ==
    IF vm.call_stack = <<>> THEN Raise(vm, "IndexError")
    ELSE Ok([vm EXCEPT !.instruction_index = Top(vm.call_stack),
                       !.call_stack = Pop(@)])

\* VirtualMachine.stop, called by Exit.perform
Stop(vm) == [vm EXCEPT !.running = FALSE]

\* Exit with the default advance of Instruction.perform
ExitPerformAdvancing(vm) == Ok([Stop(vm) EXCEPT !.instruction_index = @ + 1])

ExitPerform(vm) == Ok(Stop(vm))

PushPerform(vm, argument) == Ok([vm EXCEPT !.stack = Append(@, argument)])

\* Copy._perform without its test of a negative argument
CopyPerformUnchecked(vm, argument) ==
    IF ~IndexOk(vm.stack, 0 - argument - 1) THEN Raise(vm, "IndexError")
    ELSE Ok([vm EXCEPT !.stack = Append(@, At(vm.stack, 0 - argument - 1))])

\* Copy counting the argument from the bottom of the stack: stack[argument]
CopyPerformFromBottom(vm, argument) ==
    IF argument < 0 THEN Raise(vm, "RuntimeError")
    ELSE IF ~IndexOk(vm.stack, argument) THEN Raise(vm, "IndexError")
    ELSE Ok([vm EXCEPT !.stack = Append(@, At(vm.stack, argument))])

CopyPerform(vm, argument) ==
    IF argument < 0 THEN Raise(vm, "RuntimeError")
    ELSE IF ~IndexOk(vm.stack, 0 - argument - 1) THEN Raise(vm, "IndexError")
    ELSE Ok([vm EXCEPT !.stack = Append(@, At(vm.stack, 0 - argument - 1))])

\* Slide removing the n deepest values instead of those below the top
SlidePerformFromBottom(vm, argument) ==
    IF vm.stack = <<>> THEN Raise(vm, "IndexError")
    ELSE LET a == Top(vm.stack)
             rest == Pop(vm.stack)
             n == IF argument < 0 THEN Len(rest) ELSE Min(Len(rest), argument)
         IN  Ok([vm EXCEPT !.stack = Append(SubSeq(rest, n + 1, Len(rest)), a)])

SlidePerform(vm, argument) ==
    IF vm.stack = <<>> THEN Raise(vm, "IndexError")
    ELSE LET a == Top(vm.stack)
             rest == Pop(vm.stack)
             n == IF argument < 0 THEN Len(rest) ELSE Min(Len(rest), argument)
         IN  Ok([vm EXCEPT !.stack = Append(SliceToMinus(rest, n), a)])

\* Call.perform pushing the index of the call itself
CallPerformPushingCallSite(vm, argument) ==
    LET vm1 == [vm EXCEPT !.call_stack = Append(@, vm.instruction_index)]
    IN  IF argument \notin DOMAIN label_table THEN Raise(vm1, "KeyError")
        ELSE Ok([vm1 EXCEPT !.instruction_index = label_table[argument]])

CallPerform(vm, argument) ==
    LET vm1 == [vm EXCEPT !.call_stack = Append(@, vm.instruction_index + 1)]
    IN  IF argument \notin DOMAIN label_table THEN Raise(vm1, "KeyError")
        ELSE Ok([vm1 EXCEPT !.instruction_index = label_table[argument]])

JumpPerform(vm, argument) ==
    IF argument \notin DOMAIN label_table THEN Raise(vm, "KeyError")
    ELSE Ok([vm EXCEPT !.instruction_index = label_table[argument]])

\* JumpIfZero.perform looking its label up before it tests the popped value
JumpIfZeroPerformEagerLookup(vm, argument) ==
    IF vm.stack = <<>> THEN Raise(vm, "IndexError")
    ELSE LET v == Top(vm.stack)
             vm1 == [vm EXCEPT !.stack = Pop(@)]
         IN  IF argument \notin DOMAIN label_table THEN Raise(vm1, "KeyError")
             ELSE IF v = 0
             THEN Ok([vm1 EXCEPT !.instruction_index = label_table[argument]])
             ELSE Ok([vm1 EXCEPT !.instruction_index = @ + 1])

JumpIfZeroPerform(vm, argument) ==
    IF vm.stack = <<>> THEN Raise(vm, "IndexError")
    ELSE LET v == Top(vm.stack)
             vm1 == [vm EXCEPT !.stack = Pop(@)]
         IN  IF v = 0
             THEN IF argument \notin DOMAIN label_table
                  THEN Raise(vm1, "KeyError")
                  ELSE Ok([vm1 EXCEPT !.instruction_index = label_table[argument]])
             ELSE Ok([vm1 EXCEPT !.instruction_index = @ + 1])

\* JumpIfNegative leaving instruction_index alone when the jump is not taken
JumpIfNegativePerformStaying(vm, argument) ==
    IF vm.stack = <<>> THEN Raise(vm, "IndexError")
    ELSE LET v == Top(vm.stack)
             vm1 == [vm EXCEPT !.stack = Pop(@)]
         IN  IF v < 0
             THEN IF argument \notin DOMAIN label_table
                  THEN Raise(vm1, "KeyError")
                  ELSE Ok([vm1 EXCEPT !.instruction_index = label_table[argument]])
             ELSE Ok(vm1)

JumpIfNegativePerform(vm, argument) ==
    IF vm.stack = <<>> THEN Raise(vm, "IndexError")
    ELSE LET v == Top(vm.stack)
             vm1 == [vm EXCEPT !.stack = Pop(@)]
         IN  IF v < 0
             THEN IF argument \notin DOMAIN label_table
                  THEN Raise(vm1, "KeyError")
                  ELSE Ok([vm1 EXCEPT !.instruction_index = label_table[argument]])
             ELSE Ok([vm1 EXCEPT !.instruction_index = @ + 1])

\* Instruction.perform advancing in a finally clause, also when _perform raised
InstructionPerformAlways(r) ==
    [r EXCEPT !.vm.instruction_index = @ + 1]

\* Instruction.perform: _perform, then the default advance (skipped when
\* _perform raised).
InstructionPerform(r) ==
    IF r.exc # "none" THEN r
    ELSE Ok([r.vm EXCEPT !.instruction_index = @ + 1])

\* instruction.perform(vm), by the class of the instruction
Perform(vm, ins) ==
    LET class == ClassOf(ins)
    IN  CASE class = "Duplicate" -> InstructionPerform(DuplicatePerform(vm))
          [] class = "Swap" -> InstructionPerform(SwapPerform(vm))
          [] class = "Discard" -> InstructionPerform(DiscardPerform(vm))
          [] class \in BinArith -> InstructionPerform(BinArithPerform(vm, class))
          [] class = "Store" -> InstructionPerform(StorePerform(vm))
          [] class = "Retrieve" -> InstructionPerform(RetrievePerform(vm))
          [] class = "ReadChar" -> InstructionPerform(ReadCharPerform(vm))
          [] class = "ReadNumber" -> InstructionPerform(ReadNumberPerform(vm))
          [] class = "WriteChar" -> InstructionPerform(WriteCharPerform(vm))
          [] class = "WriteNumber" -> InstructionPerform(WriteNumberPerform(vm))
          [] class = "Push" -> InstructionPerform(PushPerform(vm, Argument(ins)))
          [] class = "Copy" -> InstructionPerform(CopyPerform(vm, Argument(ins)))
          [] class = "Slide" -> InstructionPerform(SlidePerform(vm, Argument(ins)))
          [] class = "Return" -> ReturnPerform(vm)
          [] class = "Exit" -> ExitPerform(vm)
          [] class = "Call" -> CallPerform(vm, Argument(ins))
          [] class = "Jump" -> JumpPerform(vm, Argument(ins))
          [] class = "JumpIfZero" -> JumpIfZeroPerform(vm, Argument(ins))
          [] class = "JumpIfNegative" -> JumpIfNegativePerform(vm, Argument(ins))

\* VirtualMachine.step: fetch current_instruction, perform it.
\* step treating a fetch past the last instruction as a normal halt
StepOfStoppingAtEnd(vm) ==
    IF ~IndexOk(instructions, vm.instruction_index) THEN Ok(Stop(vm))
    ELSE Perform(vm, At(instructions, vm.instruction_index))

StepOf(vm) ==
    IF ~IndexOk(instructions, vm.instruction_index) THEN Raise(vm, "IndexError")
    ELSE Perform(vm, At(instructions, vm.instruction_index))

(***************************************************************************)
(* sanitize and tokenize                                                   *)
(***************************************************************************)
\* sanitize keeps the characters of " \t\n", in their order.
IsBlank(c) == c \in {SP, TAB, NL}
sanitize(text) == SelectSeq(text, IsBlank)

\* next(): the character at index i and the index after it, or IndexError at
\* the end of the text (the index stays).
next(text, i) ==
    IF i < Len(text)
    THEN [exc |-> "none", result |-> text[i + 1], index |-> i + 1]
    ELSE [exc |-> "IndexError", result |-> NL, index |-> i]

\* matches(prefix): the slice text[i : i + len(prefix)] is the prefix (a slice
\* is cut at the end of the text).
matches(text, i, prefix) ==
    SubSeq(text, i + 1, Min(Len(text), i + Len(prefix))) = prefix

\* The while loop of number(): value = value * 2 + bit for every character
\* before the next newline.
RECURSIVE NumberLoop(_, _, _)
NumberLoop(text, i, value) ==
    LET current == next(text, i)
    IN  IF current.exc # "none"
        THEN [exc |-> current.exc, value |-> value, index |-> current.index]
        ELSE IF current.result = NL
        THEN [exc |-> "none", value |-> value, index |-> current.index]
        ELSE NumberLoop(text, current.index,
                        value * 2 + (IF current.result = SP THEN 0 ELSE 1))

\* number() reading the digits least significant first
RECURSIVE NumberLoopLsbFirst(_, _, _, _)
NumberLoopLsbFirst(text, i, value, weight) ==
    LET current == next(text, i)
    IN  IF current.exc # "none"
        THEN [exc |-> current.exc, value |-> value, index |-> current.index]
        ELSE IF current.result = NL
        THEN [exc |-> "none", value |-> value, index |-> current.index]
        ELSE NumberLoopLsbFirst(text, current.index,
                 value + weight * (IF current.result = SP THEN 0 ELSE 1),
                 weight * 2)

numberLsbFirst(text, i) ==
    LET first == next(text, i)
    IN  IF first.exc # "none"
        THEN [exc |-> first.exc, value |-> 0, index |-> first.index]
        ELSE LET sign == IF first.result = SP THEN 1 ELSE -1
                 r == NumberLoopLsbFirst(text, first.index, 0, 1)
             IN  [r EXCEPT !.value = sign * @]

\* number(): the sign character, then the digits up to the newline.
number(text, i) ==
    LET first == next(text, i)
    IN  IF first.exc # "none"
        THEN [exc |-> first.exc, value |-> 0, index |-> first.index]
        ELSE LET sign == IF first.result = SP THEN 1 ELSE -1
                 r == NumberLoop(text, first.index, 0)
             IN  [r EXCEPT !.value = sign * @]

\* The while loop of label(): result += current for every character before the
\* next newline.
RECURSIVE LabelLoop(_, _, _)
LabelLoop(text, i, result) ==
    LET current == next(text, i)
    IN  IF current.exc # "none"
        THEN [exc |-> current.exc, value |-> result, index |-> current.index]
        ELSE IF current.result = NL
        THEN [exc |-> "none", value |-> result, index |-> current.index]
        ELSE LabelLoop(text, current.index, Append(result, current.result))

label(text, i) == LabelLoop(text, i, <<>>)

\* The if/elif chain of tokenize, in its order: the prefix, the class yielded
\* and the argument it reads.
Opcodes ==
    << [prefix |-> <<SP, SP>>,            class |-> "Push",           argument |-> "number"],
       [prefix |-> <<SP, NL, SP>>,        class |-> "Duplicate",      argument |-> "none"],
       [prefix |-> <<SP, TAB, SP>>,       class |-> "Copy",           argument |-> "number"],
       [prefix |-> <<SP, NL, TAB>>,       class |-> "Swap",           argument |-> "none"],
       [prefix |-> <<SP, NL, NL>>,        class |-> "Discard",        argument |-> "none"],
       [prefix |-> <<SP, TAB, NL>>,       class |-> "Slide",          argument |-> "number"],
       [prefix |-> <<TAB, SP, SP, SP>>,   class |-> "Add",            argument |-> "none"],
       [prefix |-> <<TAB, SP, SP, TAB>>,  class |-> "Subtract",       argument |-> "none"],
       [prefix |-> <<TAB, SP, SP, NL>>,   class |-> "Multiply",       argument |-> "none"],
       [prefix |-> <<TAB, SP, TAB, SP>>,  class |-> "Division",       argument |-> "none"],
       [prefix |-> <<TAB, SP, TAB, TAB>>, class |-> "Modulo",         argument |-> "none"],
       [prefix |-> <<TAB, TAB, SP>>,      class |-> "Store",          argument |-> "none"],
       [prefix |-> <<TAB, TAB, TAB>>,     class |-> "Retrieve",       argument |-> "none"],
       [prefix |-> <<NL, SP, SP>>,        class |-> "Label",          argument |-> "label"],
       [prefix |-> <<NL, SP, TAB>>,       class |-> "Call",           argument |-> "label"],
       [prefix |-> <<NL, SP, NL>>,        class |-> "Jump",           argument |-> "label"],
       [prefix |-> <<NL, TAB, SP>>,       class |-> "JumpIfZero",     argument |-> "label"],
       [prefix |-> <<NL, TAB, TAB>>,      class |-> "JumpIfNegative", argument |-> "label"],
       [prefix |-> <<NL, TAB, NL>>,       class |-> "Return",         argument |-> "none"],
       [prefix |-> <<NL, NL, NL>>,        class |-> "Exit",           argument |-> "none"],
       [prefix |-> <<TAB, NL, SP, SP>>,   class |-> "WriteChar",      argument |-> "none"],
       [prefix |-> <<TAB, NL, SP, TAB>>,  class |-> "WriteNumber",    argument |-> "none"],
       [prefix |-> <<TAB, NL, TAB, SP>>,  class |-> "ReadChar",       argument |-> "none"],
       [prefix |-> <<TAB, NL, TAB, TAB>>, class |-> "ReadNumber",     argument |-> "none"] >>

\* One iteration of the while loop of tokenize at index i < len(text): the
\* token it yields and the index it leaves, or what it raises.
tokenize(text, i) ==
    LET hits == {k \in 1..Len(Opcodes) : matches(text, i, Opcodes[k].prefix)}
    IN  IF hits = {}
        THEN [exc |-> "RuntimeError", token |-> <<>>, index |-> i]
        ELSE LET k == CHOOSE h \in hits : \A g \in hits : h <= g
                 op == Opcodes[k]
                 j == i + Len(op.prefix)
             IN  IF op.argument = "none"
                 THEN [exc |-> "none", token |-> <<op.class>>, index |-> j]
                 ELSE LET a == IF op.argument = "number" THEN number(text, j)
                               ELSE label(text, j)
                      IN  [exc |-> a.exc, token |-> <<op.class, a.value>>,
                           index |-> a.index]

(***************************************************************************)
(* parse                                                                   *)
(***************************************************************************)
\* The body of the for loop of parse, mapping a label to the number of tokens
\* before it, label definitions included
ParseTokenCountingLabels(acc, token) ==
    IF ClassOf(token) = "Label"
    THEN IF Argument(token) \in DOMAIN acc.table
         THEN [acc EXCEPT !.exc = "RuntimeError"]
         ELSE [acc EXCEPT !.table =
                   DictSet(@, Argument(token),
                           Len(acc.instructions) + Cardinality(DOMAIN acc.table))]
    ELSE [acc EXCEPT !.instructions = Append(@, token)]

\* The body of the for loop of parse for one token; acc holds the
\* instructions and the table built so far, and the exception the body raises.
ParseToken(acc, token) ==
    IF ClassOf(token) = "Label"
    THEN IF Argument(token) \in DOMAIN acc.table
         THEN [acc EXCEPT !.exc = "RuntimeError"]
         ELSE [acc EXCEPT !.table =
                   DictSet(@, Argument(token), Len(acc.instructions))]
    ELSE [acc EXCEPT !.instructions = Append(@, token)]

(***************************************************************************)
(* The programs and inputs the model runs                                  *)
(***************************************************************************)
MaxPush == 2        \* pushes in front of the instruction of a StackProgram
MaxLen == 4         \* tokens of a LabelProgram
MaxWrites == 3      \* tokens of a short WriteProgram
MaxPairs == 51      \* push/write pairs of the long WriteProgram
MaxDepth == 2       \* nesting depth of the calls of a CallProgram
LoopCount == 200    \* iterations of the long LoopProgram
MaxInput == 3       \* characters of the input stream
MaxCalls == 3       \* calls of run and step the host makes on one machine
MaxDeep == 4        \* values on the stack of a DeepProgram
MaxText == 6        \* characters of a ShortCode
MaxBits == 4        \* binary digits of the numeral of a NumeralCode

PushVals == {-7, -2, 0, 2, 7}
SmallArgs == {-1, 0, 1, 2}
LabelNames == {<<SP>>, <<TAB>>}
InputAlphabet == {ZERO + 1, MINUS, NL}

NullaryTokens ==
    {Duplicate, Swap, Discard, Add, Subtract, Multiply, Division, Modulo,
     Store, Retrieve, ReadChar, ReadNumber, WriteChar, WriteNumber, Return, Exit}

UnaryTokens ==
    {Push(v) : v \in PushVals}
    \cup {Copy(n) : n \in SmallArgs} \cup {Slide(n) : n \in SmallArgs}
    \cup {Label(l) : l \in LabelNames} \cup {Call(l) : l \in LabelNames}
    \cup {Jump(l) : l \in LabelNames} \cup {JumpIfZero(l) : l \in LabelNames}
    \cup {JumpIfNegative(l) : l \in LabelNames}

\* All sequences over S of length at most n
RECURSIVE SeqsUpTo(_, _)
SeqsUpTo(S, n) ==
    IF n = 0 THEN {<<>>}
    ELSE LET shorter == SeqsUpTo(S, n - 1)
         IN  shorter \cup {Append(q, x) : q \in shorter, x \in S}

\* Some pushes, one instruction of any class, and a tail that defines the
\* label <<SP>> (and not <<TAB>>) after an instruction a jump would skip.
StackPrograms ==
    {pro \o <<t>> \o <<Push(2), Label(<<SP>>), Exit>> :
        pro \in SeqsUpTo({Push(v) : v \in PushVals}, MaxPush),
        t \in NullaryTokens \cup UnaryTokens}

\* Every short sequence of label definitions and plain instructions
LabelPrograms ==
    SeqsUpTo({Label(<<SP>>), Label(<<TAB>>), Push(0), WriteNumber, Exit}, MaxLen)

RECURSIVE Pairs(_)
Pairs(k) == IF k = 0 THEN <<>> ELSE Pairs(k - 1) \o <<Push(7 * k - 100), WriteNumber>>

\* Programs of push and write-number only, then terminate
WritePrograms ==
    {q \o <<Exit>> : q \in SeqsUpTo({Push(-7), Push(20), WriteNumber}, MaxWrites)}
    \cup {Pairs(k) \o <<Exit>> : k \in {MaxPairs - 1, MaxPairs}}

\* Count n down to 0, one iteration of the loop for each value, then terminate.
LoopProgram(n) ==
    <<Push(n), Label(<<SP>>), Duplicate, JumpIfZero(<<TAB>>), Push(1), Subtract,
      Jump(<<SP>>), Label(<<TAB>>), Discard, Exit>>

\* A subroutine that calls itself d times below the first call, every call
\* returning to the instruction after it; the main program then writes and
\* terminates.
CallProgram(d) ==
    <<Push(d), Call(<<SP>>), WriteNumber, Exit,
      Label(<<SP>>), Duplicate, JumpIfZero(<<TAB>>), Push(1), Subtract,
      Call(<<SP>>), Return, Label(<<TAB>>), Return>>

\* k pushes of different values: -2, 1, 4, 7, ...
DeepStack(k) == [i \in 1..k |-> Push(3 * i - 5)]

DeepArgs == (0 - 1)..(MaxDeep - 1)

\* A copy or a slide on a stack of three or more different values
DeepPrograms ==
    {DeepStack(k) \o <<t>> \o <<Exit>> :
        k \in 3..MaxDeep,
        t \in {Copy(n) : n \in DeepArgs} \cup {Slide(n) : n \in DeepArgs}}

\* duplicate then discard, on every depth of stack
DuplicateDiscardPrograms ==
    {DeepStack(k) \o <<Duplicate, Discard, Exit>> : k \in 0..MaxDeep}

HeapAddresses == {-2, 0, 7}
HeapValues == {-7, 72}

\* Two stores, then a retrieve whose value is written as a character
HeapPrograms ==
    {<<Push(a), Push(v), Store, Push(b), Push(w), Store, Push(c), Retrieve,
       WriteChar, Exit>> :
        a \in HeapAddresses, b \in HeapAddresses, c \in HeapAddresses,
        v \in HeapValues, w \in HeapValues}

\* Two reads to the addresses 0 and 2, then a retrieve whose value is written
ReadPrograms ==
    {<<Push(0), r1, Push(2), r2, Push(a), Retrieve, WriteNumber, Exit>> :
        r1 \in {ReadChar, ReadNumber}, r2 \in {ReadChar, ReadNumber},
        a \in {0, 2}}

\* A transfer of control to a label after the last instruction
TrailingLabelPrograms ==
    {<<Push(v), j, Push(2), Label(<<SP>>)>> :
        v \in {-2, 0},
        j \in {Call(<<SP>>), Jump(<<SP>>), JumpIfZero(<<SP>>),
               JumpIfNegative(<<SP>>)}}

Programs ==
    StackPrograms \cup LabelPrograms \cup WritePrograms
    \cup {LoopProgram(n) : n \in {2, LoopCount}}
    \cup {CallProgram(d) : d \in 0..MaxDepth}
    \cup DeepPrograms \cup DuplicateDiscardPrograms \cup HeapPrograms
    \cup ReadPrograms \cup TrailingLabelPrograms

(***************************************************************************)
(* The program texts the model tokenizes                                   *)
(***************************************************************************)
\* Every short text of blanks
ShortCodes == SeqsUpTo({SP, TAB, NL}, MaxText)

\* push, copy or slide with every sign and every numeral of at most MaxBits
\* digits: cut before its newline, ended by it, or followed by terminate.
NumeralCodes ==
    {op \o <<s>> \o bits \o end :
        op \in {<<SP, SP>>, <<SP, TAB, SP>>, <<SP, TAB, NL>>},
        s \in {SP, TAB},
        bits \in SeqsUpTo({SP, TAB}, MaxBits),
        end \in {<<>>, <<NL>>, <<NL, NL, NL, NL>>}}

\* push 1; write-number; terminate: a text whose run writes "1"
GoodCode == <<SP, SP, SP, TAB, NL>> \o <<TAB, NL, SP, TAB>> \o <<NL, NL, NL>>

CodeUnrecognized == <<TAB, TAB, NL>>             \* no opcode starts like this
CodeUnterminatedNumeral == <<SP, SP, SP, TAB>>   \* push +1 without its newline
CodeUnterminatedLabel == <<NL, SP, TAB, TAB>>    \* call <tab> without its newline
CodeLabel == <<NL, SP, SP, SP, NL>>              \* label <space>

\* GoodCode with one lexical or assembly error in it
BadCodes ==
    {GoodCode \o CodeUnrecognized, CodeUnrecognized \o GoodCode,
     GoodCode \o CodeUnterminatedNumeral, GoodCode \o CodeUnterminatedLabel,
     GoodCode \o CodeLabel \o CodeLabel, CodeLabel \o GoodCode \o CodeLabel,
     CodeLabel \o CodeLabel \o GoodCode}

\* The text with a character sanitize drops after each of its characters
Commented(text) ==
    [i \in 1..(2 * Len(text)) |-> IF i % 2 = 1 THEN text[(i + 1) \div 2] ELSE ZERO]

Codes ==
    ShortCodes \cup NumeralCodes \cup {GoodCode, Commented(GoodCode)}
    \cup BadCodes \cup {Commented(b) : b \in BadCodes}

Inputs == SeqsUpTo(InputAlphabet, MaxInput)

\* Only the two read instructions look at the input.
Reads(toks) == \E i \in 1..Len(toks) : ClassOf(toks[i]) \in {"ReadChar", "ReadNumber"}

(***************************************************************************)
(* whitespace() and the calls a host makes on the machine                  *)
(***************************************************************************)
StepBudget == 100

Init ==
    /\ code = <<>>
    /\ index = 0
    /\ tokens \in Programs
    /\ input \in IF Reads(tokens) THEN Inputs ELSE {<<>>}
    /\ instructions = <<>>
    /\ label_table = <<>>
    /\ instruction_index = 0
    /\ stack = <<>>
    /\ heap = <<>>
    /\ call_stack = <<>>
    /\ input_index = 0
    /\ output = <<>>
    /\ running = TRUE
    /\ consumed = 0
    /\ pc = "parse"
    /\ steps = 0
    /\ called = "none"
    /\ exception = "none"
    /\ calls = 0

\* The machine after a call left it as vm
Becomes(vm) ==
    /\ instruction_index' = vm.instruction_index
    /\ stack' = vm.stack
    /\ heap' = vm.heap
    /\ call_stack' = vm.call_stack
    /\ input_index' = vm.input_index
    /\ output' = vm.output
    /\ running' = vm.running

\* One iteration of the for loop of parse, on the next token.
ParseStep ==
    /\ pc = "parse"
    /\ consumed < Len(tokens)
    /\ LET r == ParseToken([exc |-> "none", instructions |-> instructions,
                            table |-> label_table], tokens[consumed + 1])
       IN  /\ instructions' = r.instructions
           /\ label_table' = r.table
           /\ exception' = r.exc
           /\ pc' = IF r.exc = "none" THEN "parse" ELSE "failed"
    /\ consumed' = consumed + 1
    /\ UNCHANGED <<code, index, tokens, input, instruction_index, stack, heap, call_stack,
                   input_index, output, running, steps, called, calls>>

\* whitespace constructing the machine from what parse has collected so far,
\* whether or not the token generator is exhausted
ConstructLazily ==
    /\ pc = "parse"
    /\ consumed = Len(tokens)
    /\ pc' = "idle"
    /\ input_index' = 0
    /\ instruction_index' = 0
    /\ call_stack' = <<>>
    /\ stack' = <<>>
    /\ heap' = <<>>
    /\ output' = <<>>
    /\ running' = TRUE
    /\ UNCHANGED <<code, index, tokens, input, instructions, label_table,
                   consumed, steps, called, exception, calls>>

\* parse returns (instructions, table) and whitespace constructs the machine:
\* VirtualMachine.__init__.
Construct ==
    /\ pc = "parse"
    /\ consumed = Len(tokens)
    /\ index >= Len(sanitize(code))
    /\ pc' = "idle"
    /\ input_index' = 0
    /\ instruction_index' = 0
    /\ call_stack' = <<>>
    /\ stack' = <<>>
    /\ heap' = <<>>
    /\ output' = <<>>
    /\ running' = TRUE
    /\ UNCHANGED <<code, index, tokens, input, instructions, label_table, consumed, steps,
                   called, exception, calls>>

\* vm.run() is called: steps = 100.
RunEnter ==
    /\ pc = "idle"
    /\ calls < MaxCalls
    /\ pc' = "loop"
    /\ steps' = StepBudget
    /\ called' = "run"
    /\ exception' = "none"
    /\ calls' = calls + 1
    /\ UNCHANGED <<code, index, tokens, input, instructions, label_table, instruction_index,
                   stack, heap, call_stack, input_index, output, running,
                   consumed>>

\* One iteration of the loop of run: self.step(), steps -= 1; an exception
\* leaves run (and whitespace) at once.
RunStep ==
    /\ pc = "loop"
    /\ running /\ steps > 0
    /\ LET r == StepOf(VM)
       IN  /\ Becomes(r.vm)
           /\ exception' = r.exc
           /\ IF r.exc = "none"
              THEN pc' = "loop" /\ steps' = steps - 1
              ELSE pc' = "idle" /\ steps' = 0
    /\ UNCHANGED <<code, index, tokens, input, instructions, label_table, consumed, called,
                   calls>>

\* The loop condition of run is false: run returns.
RunReturn ==
    /\ pc = "loop"
    /\ ~(running /\ steps > 0)
    /\ pc' = "idle"
    /\ steps' = 0
    /\ UNCHANGED <<code, index, tokens, input, instructions, label_table, instruction_index,
                   stack, heap, call_stack, input_index, output, running,
                   consumed, called, exception, calls>>

\* The host calls vm.step() itself.
StepCall ==
    /\ pc = "idle"
    /\ calls < MaxCalls
    /\ LET r == StepOf(VM)
       IN  /\ Becomes(r.vm)
           /\ exception' = r.exc
    /\ called' = "step"
    /\ calls' = calls + 1
    /\ UNCHANGED <<code, index, tokens, input, instructions, label_table, consumed, pc, steps>>

Next == ParseStep \/ Construct \/ RunEnter \/ RunStep \/ RunReturn \/ StepCall

Spec == Init /\ [][Next]_vars

(***************************************************************************)
(* whitespace() on a program text: parse draws its tokens from tokenize    *)
(***************************************************************************)
InitText ==
    /\ code \in Codes
    /\ index = 0
    /\ tokens = <<>>
    /\ input = <<>>
    /\ instructions = <<>>
    /\ label_table = <<>>
    /\ instruction_index = 0
    /\ stack = <<>>
    /\ heap = <<>>
    /\ call_stack = <<>>
    /\ input_index = 0
    /\ output = <<>>
    /\ running = TRUE
    /\ consumed = 0
    /\ pc = "parse"
    /\ steps = 0
    /\ called = "none"
    /\ exception = "none"
    /\ calls = 0

\* The for loop of parse asks the generator for its next token: tokenize runs
\* one iteration of its while loop and yields, or raises through parse.
TokenizeStep ==
    /\ pc = "parse"
    /\ consumed = Len(tokens)
    /\ index < Len(sanitize(code))
    /\ LET r == tokenize(sanitize(code), index)
       IN  /\ index' = r.index
           /\ exception' = r.exc
           /\ IF r.exc = "none"
              THEN tokens' = Append(tokens, r.token) /\ pc' = "parse"
              ELSE tokens' = tokens /\ pc' = "failed"
    /\ UNCHANGED <<code, input, instructions, label_table, instruction_index,
                   stack, heap, call_stack, input_index, output, running,
                   consumed, steps, called, calls>>

NextText ==
    \/ TokenizeStep \/ ParseStep \/ Construct \/ RunEnter \/ RunStep
    \/ RunReturn \/ StepCall

SpecText == InitText /\ [][NextText]_vars

(***************************************************************************)
(* Vocabulary of the properties                                            *)
(***************************************************************************)
\* The transition is one call of VirtualMachine.step: an iteration of the loop
\* of run, or a call of step by the host.
IsStep ==
    \/ pc = "loop" /\ running /\ steps > 0
    \/ pc = "idle" /\ calls' = calls + 1 /\ called' = "step"

\* There is an instruction to fetch, and it is of one of these classes.
Fetches(classes) ==
    /\ IndexOk(instructions, instruction_index)
    /\ ClassOf(At(instructions, instruction_index)) \in classes

Current == At(instructions, instruction_index)

\* whitespace() has returned: its one call of run returned normally.
WhitespaceReturned ==
    pc = "idle" /\ calls = 1 /\ called = "run" /\ exception = "none"

NotLabel(token) == ClassOf(token) # "Label"

(***************************************************************************)
(* C1                                                                      *)
(***************************************************************************)
\* C1: run returns only when running is false, however many instructions the
\* program takes: whenever a call of run has returned normally, the machine
\* has stopped.
C1_RunReturnsOnlyWhenStopped ==
    (pc = "idle" /\ called = "run" /\ exception = "none") => ~running

(***************************************************************************)
(* C2                                                                      *)
(***************************************************************************)
PushWriteOnly(toks) ==
    /\ Len(toks) >= 1
    /\ toks[Len(toks)] = Exit
    /\ \A i \in 1..(Len(toks) - 1) : ClassOf(toks[i]) \in {"Push", "WriteNumber"}

CountOf(toks, class, lo, hi) ==
    Cardinality({j \in lo..hi : ClassOf(toks[j]) = class})

\* The push whose value the write-number at position p writes: the nearest
\* push before p with as many pushes as writes between the two.
PushWrittenAt(toks, p) ==
    CHOOSE q \in 1..(p - 1) :
        /\ ClassOf(toks[q]) = "Push"
        /\ CountOf(toks, "Push", q + 1, p - 1)
             = CountOf(toks, "WriteNumber", q + 1, p - 1)
        /\ \A m \in (q + 1)..(p - 1) :
             CountOf(toks, "Push", m, p - 1) <= CountOf(toks, "WriteNumber", m, p - 1)

\* The decimal renderings of the values the write-numbers among the first n
\* tokens write, one after the other.
RECURSIVE Renderings(_, _)
Renderings(toks, n) ==
    IF n = 0 THEN <<>>
    ELSE Renderings(toks, n - 1)
         \o (IF ClassOf(toks[n]) = "WriteNumber"
             THEN Str(Argument(toks[PushWrittenAt(toks, n)]))
             ELSE <<>>)

\* C2: for a program of push and write-number instructions followed by
\* terminate, of any length, whitespace returns exactly the decimal renderings
\* of the written values, in the order they were written.
C2_PushWriteOutput ==
    (PushWriteOnly(tokens) /\ WhitespaceReturned)
        => output = Renderings(tokens, Len(tokens))

(***************************************************************************)
(* C3                                                                      *)
(***************************************************************************)
\* C3: Slide(0) on a stack of at least one element leaves the stack as it was.
C3_SlideZeroKeepsStack ==
    [][(IsStep /\ Fetches({"Slide"}) /\ Argument(Current) = 0 /\ Len(stack) >= 1)
          => stack' = stack]_vars

(***************************************************************************)
(* C4                                                                      *)
(***************************************************************************)
\* q is the floor of b / a: the one integer with a*q <= b < a*q + a for a > 0,
\* and a*q >= b > a*q + a for a < 0.
IsFloorQuotient(q, b, a) ==
    IF a > 0 THEN a * q <= b /\ b < a * q + a
    ELSE a * q >= b /\ b > a * q + a

\* r is b - a * floor(b / a): b - r is a multiple of a, and r lies between 0
\* (included) and a (excluded).
IsFloorRemainder(r, b, a) ==
    /\ IF b - r >= 0 THEN (b - r) % (IF a > 0 THEN a ELSE 0 - a) = 0
       ELSE (r - b) % (IF a > 0 THEN a ELSE 0 - a) = 0
    /\ IF a > 0 THEN 0 <= r /\ r < a ELSE a < r /\ r <= 0

\* C4: a binary arithmetic instruction on a stack [..., b, a] pops a then b and
\* pushes b op a, leaving the rest of the stack; for a # 0 the quotient is the
\* floor of b / a and the remainder is b - a * floor(b / a), for every sign of
\* a and b.
C4_BinArith ==
    [][(IsStep /\ Fetches(BinArith) /\ Len(stack) >= 2)
          => LET class == ClassOf(Current)
                 a == stack[Len(stack)]
                 b == stack[Len(stack) - 1]
                 rest == SubSeq(stack, 1, Len(stack) - 2)
                 res == stack'[Len(stack')]
             IN  (class \in {"Add", "Subtract", "Multiply"} \/ a # 0)
                   => /\ exception' = "none"
                      /\ Len(stack') = Len(stack) - 1
                      /\ SubSeq(stack', 1, Len(stack') - 1) = rest
                      /\ class = "Add" => res = b + a
                      /\ class = "Subtract" => res = b - a
                      /\ class = "Multiply" => res = b * a
                      /\ class = "Division" => IsFloorQuotient(res, b, a)
                      /\ class = "Modulo" => IsFloorRemainder(res, b, a)]_vars

\* The division of -7 by 2 has been performed and left -4.
C4_Witness ==
    /\ pc = "idle"
    /\ Len(tokens) >= 3
    /\ SubSeq(tokens, 1, 3) = <<Push(-7), Push(2), Division>>
    /\ instruction_index = 3
    /\ stack = <<-4>>
    /\ exception = "none"

(***************************************************************************)
(* C5                                                                      *)
(***************************************************************************)
\* The instruction about to be fetched meets one of the listed fatal
\* conditions.
FatalCondition ==
    \/ Fetches({"Duplicate", "Discard", "Slide", "WriteChar", "WriteNumber",
                "Retrieve", "JumpIfZero", "JumpIfNegative"}) /\ Len(stack) = 0
    \/ Fetches({"Swap", "Store"} \cup BinArith) /\ Len(stack) < 2
    \/ Fetches({"Copy"})
         /\ (Argument(Current) < 0 \/ Argument(Current) >= Len(stack))
    \/ Fetches({"Division", "Modulo"}) /\ Len(stack) >= 1 /\ stack[Len(stack)] = 0
    \/ Fetches({"Retrieve"})
         /\ Len(stack) >= 1 /\ stack[Len(stack)] \notin DOMAIN heap
    \/ Fetches({"Jump", "Call"}) /\ Argument(Current) \notin DOMAIN label_table
    \/ Fetches({"JumpIfZero"})
         /\ Len(stack) >= 1 /\ stack[Len(stack)] = 0
         /\ Argument(Current) \notin DOMAIN label_table
    \/ Fetches({"JumpIfNegative"})
         /\ Len(stack) >= 1 /\ stack[Len(stack)] < 0
         /\ Argument(Current) \notin DOMAIN label_table
    \/ Fetches({"Return"}) /\ Len(call_stack) = 0
    \/ Fetches({"ReadChar", "ReadNumber"}) /\ input_index = Len(input)

\* C5: a step whose instruction meets a listed fatal condition raises, and does
\* not complete the instruction: the instruction pointer stays on it.
C5_FatalConditionsRaise ==
    [][(IsStep /\ FatalCondition)
          => /\ exception' # "none"
             /\ instruction_index' = instruction_index]_vars

\* Copy(-1) on a stack of one element has raised.
C5_Witness ==
    /\ pc = "idle"
    /\ Len(tokens) >= 2
    /\ SubSeq(tokens, 1, 2) = <<Push(2), Copy(-1)>>
    /\ instruction_index = 1
    /\ stack = <<2>>
    /\ exception = "RuntimeError"

(***************************************************************************)
(* C6                                                                      *)
(***************************************************************************)
\* C6: after a call on the machine has raised, the running flag is false.
C6_FaultStopsMachine ==
    (pc = "idle" /\ exception # "none") => ~running

(***************************************************************************)
(* C7                                                                      *)
(***************************************************************************)
\* C7: once running is false (only terminate makes it so), no transition
\* changes the execution state, neither inside run, which returns at once,
\* nor by a call of step.
C7_HaltedIsTerminal ==
    [][~running
          => /\ UNCHANGED <<instruction_index, stack, heap, call_stack,
                            input_index, output, running>>
             /\ exception' = "none"
             /\ pc = "loop" => pc' = "idle"]_vars

\* The first instruction is terminate, and the host has called step on the
\* halted machine as its third call.
C7_Witness ==
    /\ pc = "idle"
    /\ ~running
    /\ Len(instructions) >= 2
    /\ instructions[1] = Exit
    /\ instruction_index = 0
    /\ called = "step"
    /\ calls = 3

(***************************************************************************)
(* C8                                                                      *)
(***************************************************************************)
\* C8: a call at index i to a defined label appends i + 1 to the call stack and
\* goes to the label's address; a return with a non-empty call stack removes
\* the last return address and goes to it; no other completed step touches the
\* call stack.  So every entry of the call stack is the index after a call
\* instruction, below it is the call stack as it was before that call, and the
\* return that removes it restores that call stack: calls and returns pair up
\* last in, first out, to any depth.
C8_CallReturnLifo ==
    [][IsStep
          => /\ (Fetches({"Call"}) /\ Argument(Current) \in DOMAIN label_table)
                  => /\ call_stack' = Append(call_stack, instruction_index + 1)
                     /\ instruction_index' = label_table[Argument(Current)]
                     /\ exception' = "none"
             /\ (Fetches({"Return"}) /\ Len(call_stack) >= 1)
                  => /\ instruction_index' = call_stack[Len(call_stack)]
                     /\ call_stack' = SubSeq(call_stack, 1, Len(call_stack) - 1)
                     /\ exception' = "none"
             /\ (~Fetches({"Call"}) /\ ~(Fetches({"Return"}) /\ Len(call_stack) >= 1))
                  => call_stack' = call_stack
             /\ \A k \in 1..Len(call_stack') :
                   /\ call_stack'[k] \in 1..Len(instructions)
                   /\ ClassOf(instructions[call_stack'[k]]) = "Call"]_vars

\* The calls of the deepest CallProgram have all returned, the last one to the
\* instruction after the first call.
C8_Witness ==
    /\ tokens = CallProgram(MaxDepth)
    /\ pc = "loop"
    /\ instruction_index = 2
    /\ call_stack = <<>>
    /\ stack = <<0>>

(***************************************************************************)
(* C9                                                                      *)
(***************************************************************************)
\* C9: a conditional jump on a non-empty stack pops exactly one value; it goes
\* to its label's address when that value is 0 (JumpIfZero) or negative
\* (JumpIfNegative), and to the next instruction otherwise, defined label or
\* not; taken to an undefined label it raises, as an unconditional jump to an
\* undefined label does.
C9_ConditionalJumps ==
    [][IsStep
          => /\ (Fetches({"JumpIfZero", "JumpIfNegative"}) /\ Len(stack) >= 1)
                  => LET v == stack[Len(stack)]
                         taken == IF ClassOf(Current) = "JumpIfZero"
                                  THEN v = 0 ELSE v < 0
                         defined == Argument(Current) \in DOMAIN label_table
                     IN  /\ stack' = SubSeq(stack, 1, Len(stack) - 1)
                         /\ (taken /\ defined)
                              => /\ exception' = "none"
                                 /\ instruction_index'
                                      = label_table[Argument(Current)]
                         /\ ~taken
                              => /\ exception' = "none"
                                 /\ instruction_index' = instruction_index + 1
                         /\ (taken /\ ~defined)
                              => /\ exception' # "none"
                                 /\ instruction_index' = instruction_index
             /\ Fetches({"Jump"})
                  => IF Argument(Current) \in DOMAIN label_table
                     THEN /\ exception' = "none"
                          /\ instruction_index' = label_table[Argument(Current)]
                     ELSE /\ exception' # "none"
                          /\ instruction_index' = instruction_index]_vars

\* A JumpIfZero to the undefined label <<TAB>> has popped 2 and fallen through.
C9_Witness ==
    /\ pc = "idle"
    /\ Len(tokens) >= 2
    /\ SubSeq(tokens, 1, 2) = <<Push(2), JumpIfZero(<<TAB>>)>>
    /\ <<TAB>> \notin DOMAIN label_table
    /\ instruction_index = 2
    /\ stack = <<>>
    /\ exception = "none"

(***************************************************************************)
(* C10                                                                     *)
(***************************************************************************)
\* The names the label definitions among the first n tokens define
LabelsIn(toks, n) == {Argument(toks[i]) : i \in {j \in 1..n : ~NotLabel(toks[j])}}

\* Two of the first n tokens define the same label name.
DefinedTwice(toks, n) ==
    \E i, j \in 1..n :
        i < j /\ ~NotLabel(toks[i]) /\ ~NotLabel(toks[j])
              /\ Argument(toks[i]) = Argument(toks[j])

\* C10: while parse has met no repeated label name, the program is the
\* non-label tokens taken so far, in their order, and the label table maps
\* each label defined so far to the number of non-label tokens before its
\* definition; parse raises exactly at the first token that defines a label
\* name again, so a machine exists only for a token sequence without one.
C10_Parse ==
    /\ pc # "failed"
         => /\ ~DefinedTwice(tokens, consumed)
            /\ instructions = SelectSeq(SubSeq(tokens, 1, consumed), NotLabel)
            /\ DOMAIN label_table = LabelsIn(tokens, consumed)
            /\ \A i \in 1..consumed :
                  ~NotLabel(tokens[i])
                     => label_table[Argument(tokens[i])]
                          = Len(SelectSeq(SubSeq(tokens, 1, i - 1), NotLabel))
    /\ pc = "failed"
         => /\ DefinedTwice(tokens, consumed)
            /\ ~DefinedTwice(tokens, consumed - 1)
            /\ exception # "none"
    /\ pc \in {"idle", "loop"}
         => consumed = Len(tokens) /\ ~DefinedTwice(tokens, Len(tokens))

\* parse has returned for a program that ends in two label definitions, which
\* share the index len(instructions).
C10_Witness ==
    /\ pc = "idle"
    /\ tokens = <<Push(0), Label(<<SP>>), Label(<<TAB>>)>>
    /\ instructions = <<Push(0)>>
    /\ label_table[<<SP>>] = 1
    /\ label_table[<<TAB>>] = 1

(***************************************************************************)
(* C11                                                                     *)
(***************************************************************************)
\* The text from index i on tokenizes to its end without a lexical error, and
\* none of its label definitions repeats a name of `defined` or of the text.
RECURSIVE Assembles(_, _, _)
Assembles(text, i, defined) ==
    IF i >= Len(text) THEN TRUE
    ELSE LET r == tokenize(text, i)
         IN  IF r.exc # "none" THEN FALSE
             ELSE IF ClassOf(r.token) = "Label"
             THEN /\ Argument(r.token) \notin defined
                  /\ Assembles(text, r.index, defined \cup {Argument(r.token)})
             ELSE Assembles(text, r.index, defined)

Malformed == ~Assembles(sanitize(code), 0, {})

\* C11: a program text with an unrecognized opcode prefix, an unterminated
\* numeral or label, or a duplicate label definition anywhere never gets a
\* machine: parse cannot complete on it, no call of run or step is made, no
\* instruction is performed and no output is produced; and when tokenize or
\* parse has raised, nothing of the machine has been touched.
C11_ErrorsAbortBeforeExecution ==
    /\ code \in BadCodes \cup {Commented(b) : b \in BadCodes} => Malformed
    /\ Malformed =>
         /\ pc \in {"parse", "failed"}
         /\ pc = "parse" => (consumed < Len(tokens) \/ index < Len(sanitize(code)))
         /\ calls = 0 /\ called = "none"
         /\ output = <<>> /\ instruction_index = 0
         /\ stack = <<>> /\ heap = <<>> /\ call_stack = <<>> /\ input_index = 0
    /\ pc = "failed" => (Malformed /\ exception \in {"RuntimeError", "IndexError"})

\* whitespace() has failed on a text whose error (a label defined twice) comes
\* after a terminate instruction, and whose run would have written "1".
C11_Witness ==
    /\ code = Commented(GoodCode \o CodeLabel \o CodeLabel)
    /\ pc = "failed"
    /\ exception = "RuntimeError"
    /\ tokens = <<Push(1), WriteNumber, Exit, Label(<<SP>>), Label(<<SP>>)>>

(***************************************************************************)
(* C12                                                                     *)
(***************************************************************************)
\* store 72 at address 0 (and -7 at address 7), retrieve address 0, write-char
HeapExample ==
    <<Push(0), Push(72), Store, Push(7), Push(-7), Store, Push(0), Retrieve,
      WriteChar, Exit>>

\* C12: a store on a stack of two or more pops the value, then the address,
\* and sets heap[address] = value, every other address keeping its value; a
\* retrieve pops an address and pushes the value the heap holds there, or
\* faults when the address was never written; only a store or a read to an
\* address changes what the heap holds there, so the value retrieved is that
\* of the most recent store or read. Storing 72 at address 0, retrieving it
\* and writing it as a character outputs "H" (code point 72).
C12_HeapStoreRetrieve ==
    [][/\ IsStep =>
            /\ (Fetches({"Store"}) /\ Len(stack) >= 2) =>
                 LET value == stack[Len(stack)]
                     address == stack[Len(stack) - 1]
                 IN  /\ exception' = "none"
                     /\ stack' = SubSeq(stack, 1, Len(stack) - 2)
                     /\ DOMAIN heap' = DOMAIN heap \cup {address}
                     /\ heap'[address] = value
                     /\ \A k \in DOMAIN heap : k # address => heap'[k] = heap[k]
            /\ (Fetches({"Retrieve"}) /\ Len(stack) >= 1) =>
                 /\ heap' = heap
                 /\ IF Top(stack) \in DOMAIN heap
                    THEN /\ exception' = "none"
                         /\ stack' = Append(Pop(stack), heap[Top(stack)])
                    ELSE exception' # "none"
            /\ Fetches({"ReadChar", "ReadNumber"}) =>
                 /\ DOMAIN heap \subseteq DOMAIN heap'
                 /\ \A k \in DOMAIN heap' :
                      \/ stack # <<>> /\ k = Top(stack)
                      \/ k \in DOMAIN heap /\ heap'[k] = heap[k]
            /\ ~Fetches({"Store", "ReadChar", "ReadNumber"}) => heap' = heap
       /\ (tokens = HeapExample /\ pc = "loop" /\ pc' = "idle"
             /\ exception' = "none") => output' = <<72>>
      ]_vars

\* whitespace() has returned "H" for the example, the heap holding both stores.
C12_Witness ==
    /\ tokens = HeapExample
    /\ WhitespaceReturned
    /\ output = <<72>>
    /\ heap = DictSet(DictSet(<<>>, 0, 72), 7, -7)

(***************************************************************************)
(* C13                                                                     *)
(***************************************************************************)
\* The values a DuplicateDiscardProgram pushes before its duplicate
PushedBefore(toks) == [i \in 1..(Len(toks) - 3) |-> Argument(toks[i])]

\* C13: copy(n) with 0 <= n < depth appends the element n positions below the
\* top to the unchanged stack; copy(0) and duplicate have the same effect on
\* every stack (both append the top, both raise IndexError on the empty stack
\* and leave the machine as it was); and a discard after a duplicate leaves
\* the stack as it was before the duplicate.
C13_CopyAndDuplicate ==
    [][IsStep =>
         /\ (Fetches({"Copy"}) /\ Argument(Current) >= 0
               /\ Argument(Current) < Len(stack)) =>
              /\ exception' = "none"
              /\ stack' = Append(stack, stack[Len(stack) - Argument(Current)])
         /\ ((Fetches({"Copy"}) /\ Argument(Current) = 0)
               \/ Fetches({"Duplicate"})) =>
              /\ IF stack = <<>>
                 THEN /\ exception' = "IndexError"
                      /\ stack' = stack
                      /\ instruction_index' = instruction_index
                 ELSE /\ exception' = "none"
                      /\ stack' = Append(stack, Top(stack))
                      /\ instruction_index' = instruction_index + 1
              /\ UNCHANGED <<heap, call_stack, input_index, output, running>>
         /\ CopyPerform(VM, 0) = DuplicatePerform(VM)
         /\ stack # <<>> =>
              LET d == DuplicatePerform(VM)
              IN  /\ d.exc = "none"
                  /\ DiscardPerform(d.vm) = Ok(VM)
         /\ (tokens \in DuplicateDiscardPrograms /\ Fetches({"Discard"})) =>
              /\ exception' = "none"
              /\ stack' = PushedBefore(tokens)
      ]_vars

\* copy(2) has run on a stack of three different values.
C13_Witness ==
    /\ tokens = DeepStack(3) \o <<Copy(2), Exit>>
    /\ instruction_index = 4
    /\ stack = <<-2, 1, 4, -2>>
    /\ exception = "none"

(***************************************************************************)
(* C14                                                                     *)
(***************************************************************************)
\* s is the decimal numeral of v: a minus sign exactly when v is negative, no
\* plus sign, no leading zero, and the digits of the magnitude of v.
IsDecimalOf(s, v) ==
    /\ Len(s) >= 1
    /\ LET digits == IF s[1] = MINUS THEN Tail(s) ELSE s
       IN  /\ Len(digits) >= 1
           /\ \A i \in 1..Len(digits) : IsDigit(digits[i])
           /\ Len(digits) = 1 \/ digits[1] # ZERO
           /\ (s[1] = MINUS) <=> (v < 0)
           /\ DigitsValue(digits) = (IF v < 0 THEN 0 - v ELSE v)

IsPrefix(s, t) == Len(s) <= Len(t) /\ SubSeq(t, 1, Len(s)) = s

\* C14: a write-char that completes replaces output by output followed by the
\* character of the popped value, a write-number that completes by output
\* followed by the decimal numeral of the popped value; every other step (any
\* other instruction, and any faulting one) leaves output as it was; so in
\* every transition the earlier output is a prefix of the later one.
C14_OutputAppendOnly ==
    [][/\ IsStep =>
            /\ (Fetches({"WriteChar"}) /\ exception' = "none") =>
                 /\ stack # <<>>
                 /\ output' = Append(output, Top(stack))
            /\ (Fetches({"WriteNumber"}) /\ exception' = "none") =>
                 /\ stack # <<>>
                 /\ IsPrefix(output, output')
                 /\ IsDecimalOf(SubSeq(output', Len(output) + 1, Len(output')),
                                Top(stack))
            /\ ~(Fetches({"WriteChar", "WriteNumber"}) /\ exception' = "none") =>
                 output' = output
       /\ ~IsStep => output' = output
       /\ IsPrefix(output, output')
      ]_vars

\* The second write-number of the long program has appended "-86" to "-93".
C14_Witness ==
    /\ tokens = Pairs(MaxPairs) \o <<Exit>>
    /\ instruction_index = 4
    /\ output = <<MINUS, ZERO + 9, ZERO + 3, MINUS, ZERO + 8, ZERO + 6>>

(***************************************************************************)
(* C15                                                                     *)
(***************************************************************************)
\* C15: slide(n) with n >= 1 on a stack of at least n + 1 values removes the n
\* values directly below the top: the stack becomes its values below those n,
\* in their order, then the former top; slide(n) with n < 0 on a non-empty
\* stack leaves only the former top.
C15_Slide ==
    [][(IsStep /\ Fetches({"Slide"})) =>
         LET n == Argument(Current)
         IN  /\ (n >= 1 /\ Len(stack) >= n + 1) =>
                  /\ exception' = "none"
                  /\ stack' = Append(SubSeq(stack, 1, Len(stack) - n - 1),
                                     Top(stack))
             /\ (n < 0 /\ stack # <<>>) =>
                  /\ exception' = "none"
                  /\ stack' = <<Top(stack)>>
      ]_vars

\* slide(2) has run on the stack -2, 1, 4, 7: the deepest value and the top
\* are left.
C15_Witness ==
    /\ tokens = DeepStack(4) \o <<Slide(2), Exit>>
    /\ instruction_index = 5
    /\ stack = <<-2, 7>>
    /\ exception = "none"

(***************************************************************************)
(* C16                                                                     *)
(***************************************************************************)
\* The for loop of parse is about to resume tokenize inside the text.
IsTokenize ==
    pc = "parse" /\ consumed = Len(tokens) /\ index < Len(sanitize(code))

\* The three opcodes that take a numeric argument
NumericOpcodes ==
    {[prefix |-> <<SP, SP>>, class |-> "Push"],
     [prefix |-> <<SP, TAB, SP>>, class |-> "Copy"],
     [prefix |-> <<SP, TAB, NL>>, class |-> "Slide"]}

RECURSIVE Pow2(_)
Pow2(n) == IF n = 0 THEN 1 ELSE 2 * Pow2(n - 1)

\* The sum of the weights 2^(len - k) of the tabs among the first k digits
RECURSIVE WeightedSum(_, _)
WeightedSum(bits, k) ==
    IF k = 0 THEN 0
    ELSE WeightedSum(bits, k - 1)
         + (IF bits[k] = TAB THEN Pow2(Len(bits) - k) ELSE 0)

\* The binary value of the digits, most significant first, space 0 and tab 1
BinaryValue(bits) == WeightedSum(bits, Len(bits))

\* C16: when tokenize meets an opcode with a numeric argument whose sign
\* character is a space or a tab, it yields the instruction with the argument
\* (+1 for space, -1 for tab) times the binary value of the digits up to the
\* next newline, and leaves its index just after that newline; the empty digit
\* string gives 0; when the text ends before the sign or before the newline,
\* tokenize raises and whitespace() fails.
C16_NumberDecoding ==
    [][IsTokenize =>
         \A op \in NumericOpcodes :
            LET text == sanitize(code)
                a == index + Len(op.prefix)
                ends == {e \in (a + 2)..Len(text) : text[e] = NL}
            IN  matches(text, index, op.prefix) =>
                  /\ a >= Len(text) => (pc' = "failed" /\ exception' # "none")
                  /\ (a < Len(text) /\ text[a + 1] \in {SP, TAB}) =>
                       IF ends = {}
                       THEN pc' = "failed" /\ exception' # "none" /\ tokens' = tokens
                       ELSE LET e == CHOOSE x \in ends : \A y \in ends : x <= y
                                bits == SubSeq(text, a + 2, e - 1)
                                sign == IF text[a + 1] = SP THEN 1 ELSE -1
                            IN  /\ exception' = "none"
                                /\ pc' = "parse"
                                /\ tokens' = Append(tokens,
                                       <<op.class, sign * BinaryValue(bits)>>)
                                /\ bits = <<>> => Argument(tokens'[Len(tokens')]) = 0
                                /\ index' = e
      ]_vars

\* tokenize has yielded push -5 for the sign tab and the digits tab space tab.
C16_Witness ==
    /\ code = <<SP, SP, TAB, TAB, SP, TAB, NL>>
    /\ tokens = <<Push(-5)>>
    /\ index = 7
    /\ exception = "none"

(***************************************************************************)
(* C17                                                                     *)
(***************************************************************************)
\* The instruction fetched is a conditional jump whose condition holds.
TakenJump ==
    /\ stack # <<>>
    /\ \/ Fetches({"JumpIfZero"}) /\ Top(stack) = 0
       \/ Fetches({"JumpIfNegative"}) /\ Top(stack) < 0

\* C17: a step that completes on an instruction other than call, jump, return,
\* terminate and a taken conditional jump (a conditional jump not taken
\* included) adds exactly 1 to instruction_index; terminate leaves
\* instruction_index as it is; and the call stack changes in no transition
\* but a step on call or return.
C17_DefaultAdvance ==
    [][/\ IsStep =>
            /\ (/\ exception' = "none"
                /\ IndexOk(instructions, instruction_index)
                /\ ~Fetches({"Call", "Jump", "Return", "Exit"})
                /\ ~TakenJump) =>
                 instruction_index' = instruction_index + 1
            /\ Fetches({"Exit"}) =>
                 /\ exception' = "none"
                 /\ instruction_index' = instruction_index
       /\ ~(IsStep /\ Fetches({"Call", "Return"})) => call_stack' = call_stack
      ]_vars

\* A jump-if-negative on 2 was not taken and went on to the next instruction.
C17_Witness ==
    /\ tokens = <<Push(2), JumpIfNegative(<<TAB>>), Push(2), Label(<<SP>>), Exit>>
    /\ instruction_index = 2
    /\ stack = <<>>
    /\ exception = "none"
    /\ pc # "parse"

(***************************************************************************)
(* C18                                                                     *)
(***************************************************************************)
\* The positions (counted from 1) of the newlines at or after the cursor
NewlinesAhead == {e \in (input_index + 1)..Len(input) : input[e] = NL}

\* C18: a read-char that completes stores the code point of the character at
\* the cursor at the popped address and adds exactly 1 to the cursor; a
\* read-number that completes leaves the cursor just after the next newline
\* and stores at the popped address the integer whose decimal numeral is the
\* text between the old cursor and that newline; a read-char with the cursor
\* at the end of the input, and a read-number with no newline at or after the
\* cursor, raise; in every state 0 <= cursor <= len(input), and no transition
\* decreases the cursor.
C18_InputCursor ==
    [][/\ IsStep =>
            /\ (Fetches({"ReadChar"}) /\ exception' = "none") =>
                 /\ stack # <<>> /\ input_index < Len(input)
                 /\ input_index' = input_index + 1
                 /\ stack' = Pop(stack)
                 /\ Top(stack) \in DOMAIN heap'
                 /\ heap'[Top(stack)] = input[input_index + 1]
            /\ (Fetches({"ReadNumber"}) /\ exception' = "none") =>
                 /\ stack # <<>> /\ NewlinesAhead # {}
                 /\ LET e == CHOOSE x \in NewlinesAhead :
                                 \A y \in NewlinesAhead : x <= y
                    IN  /\ input_index' = e
                        /\ stack' = Pop(stack)
                        /\ Top(stack) \in DOMAIN heap'
                        /\ Str(heap'[Top(stack)])
                             = SubSeq(input, input_index + 1, e - 1)
            /\ (Fetches({"ReadChar"}) /\ input_index >= Len(input)) =>
                 exception' # "none"
            /\ (Fetches({"ReadNumber"}) /\ NewlinesAhead = {}) =>
                 exception' # "none"
       /\ 0 <= input_index /\ input_index <= Len(input)
       /\ 0 <= input_index' /\ input_index' <= Len(input)
       /\ input_index <= input_index'
      ]_vars

\* On the input "1", newline, "-": read-number stored 1 at address 0 and left
\* the cursor after the newline, read-char stored the code point of "-" at
\* address 2 and left the cursor at the end, and the run wrote "1".
C18_Witness ==
    /\ tokens = <<Push(0), ReadNumber, Push(2), ReadChar, Push(0), Retrieve,
                  WriteNumber, Exit>>
    /\ input = <<ZERO + 1, NL, MINUS>>
    /\ WhitespaceReturned
    /\ input_index = 3
    /\ heap = DictSet(DictSet(<<>>, 0, 1), 2, MINUS)
    /\ output = <<ZERO + 1>>

(***************************************************************************)
(* C19                                                                     *)
(***************************************************************************)
\* C19: whenever a step raises, in fetching the instruction or in performing
\* it, instruction_index and output have the values they had before the step.
C19_FaultKeepsPointerAndOutput ==
    [][(IsStep /\ exception' # "none") =>
         /\ instruction_index' = instruction_index
         /\ output' = output
      ]_vars

\* A call of an undefined label has raised after pushing its return address:
\* the call stack has changed, instruction_index has not.
C19_Witness ==
    /\ tokens = <<Push(2), Call(<<TAB>>), Push(2), Label(<<SP>>), Exit>>
    /\ exception = "KeyError"
    /\ instruction_index = 1
    /\ call_stack = <<2>>
    /\ output = <<>>

(***************************************************************************)
(* C20                                                                     *)
(***************************************************************************)
\* C20: once parse has built the machine, 0 <= instruction_index <=
\* len(instructions), every value of the label table is in
\* 0..len(instructions) and every return address on the call stack is in
\* 1..len(instructions); and with instruction_index = len(instructions) the
\* machine has not halted (running is true) and a step raises IndexError in
\* its fetch, leaving the machine as it is.
C20_PointerBounds ==
    pc \in {"idle", "loop"} =>
        /\ 0 <= instruction_index /\ instruction_index <= Len(instructions)
        /\ \A l \in DOMAIN label_table :
             0 <= label_table[l] /\ label_table[l] <= Len(instructions)
        /\ \A i \in 1..Len(call_stack) :
             1 <= call_stack[i] /\ call_stack[i] <= Len(instructions)
        /\ instruction_index = Len(instructions) =>
             /\ running
             /\ StepOf(VM) = Raise(VM, "IndexError")

\* A jump to the label after the last instruction has put instruction_index at
\* len(instructions), and the next fetch has raised.
C20_Witness ==
    /\ tokens = <<Push(0), Jump(<<SP>>), Push(2), Label(<<SP>>)>>
    /\ pc = "idle"
    /\ instruction_index = Len(instructions)
    /\ label_table[<<SP>>] = Len(instructions)
    /\ exception = "IndexError"
    /\ running

====
